---------------------------- MODULE Spec2Model ----------------------------
(***************************************************************************)
(* A model of appDataViz.py, the Streamlit dashboard script.               *)
(*                                                                         *)
(* One script run is a sequence of steps (pc); a user interaction starts   *)
(* the next run.  Tables are records [columns, rows]; a row is the tuple   *)
(* of its cells in column order.  Every numeric cell is a float, written   *)
(* as a pair <<n, d>> in lowest terms: <<n, 1>> is the integer n, <<0, 0>> *)
(* is NaN (pandas' missing value) and <<1, 0>> is +inf.  All numbers of    *)
(* the data model are non-negative, so -inf never arises.  A variable of   *)
(* the script is <<>> while unbound and <<v>> once it holds v.             *)
(***************************************************************************)
EXTENDS Integers, Sequences, FiniteSets, TLC

VARIABLES
    disk,                       \* what read_excel finds behind each source
    uploaded,                   \* the file_uploader's value
    cache,                      \* st.cache_data's entries for load_data
    pc,                         \* position of the current script run
    trigger,                    \* the interaction that started this run
    parsed,                     \* read_excel ran in this run
    errors,                     \* st.error calls of this run
    widgets,                    \* the selectboxes' values kept between runs
    df, years,
    selected_year_for_ranking, year_a, year_b,
    shs, nat_shs, shs_focus, region_year_ratio,
    shs_sector, sector_summary, shs_year, ranking

vars == <<disk, uploaded, cache, pc, trigger, parsed, errors, widgets, df, years,
          selected_year_for_ranking, year_a, year_b, shs, nat_shs, shs_focus,
          region_year_ratio, shs_sector, sector_summary, shs_year, ranking>>

\* The largest number of data rows of a spreadsheet.
MaxRows == 2

-----------------------------------------------------------------------------
(* Floats *)

NaN == <<0, 0>>
Inf == <<1, 0>>
Num(n) == <<n, 1>>

RECURSIVE GCD(_, _)
GCD(a, b) == IF b = 0 THEN a ELSE GCD(b, a % b)

\* The float n/d for n >= 0, d > 0.
Frac(n, d) == LET g == GCD(n, d) IN <<n \div g, d \div g>>

isna(x) == x = NaN
notna(x) == x # NaN

\* a / b on float64 for non-negative operands (numpy semantics: x/0 is inf,
\* 0/0 is NaN, and no exception is raised).
FDiv(a, b) ==
    IF isna(a) \/ isna(b) THEN NaN
    ELSE IF b = Inf THEN (IF a = Inf THEN NaN ELSE Num(0))
    ELSE IF a = Inf THEN Inf
    ELSE IF b[1] = 0 THEN (IF a[1] = 0 THEN NaN ELSE Inf)
    ELSE Frac(a[1] * b[2], a[2] * b[1])

\* a + b on float64 for non-negative operands.
FAdd(a, b) ==
    IF isna(a) \/ isna(b) THEN NaN
    ELSE IF a = Inf \/ b = Inf THEN Inf
    ELSE Frac(a[1] * b[2] + b[1] * a[2], a[2] * b[2])

\* a < b on float64; every comparison with NaN is false.
FLess(a, b) ==
    /\ notna(a) /\ notna(b)
    /\ a # Inf
    /\ (b = Inf \/ a[1] * b[2] < b[1] * a[2])

-----------------------------------------------------------------------------
(* Labels.  Python orders strings by code point; CodePoints lists every    *)
(* label of the model in that order.                                       *)

CodePoints ==
    <<"2021-2022", "2022-2023", "CALABARZON", "Central Luzon", "Davao",
      "Junior High School", "NCR", "NCR - National Capital Region",
      "Northern Mindanao", "PRIVATE", "PUBLIC", "Region I - Ilocos Region",
      "Region III - Central Luzon", "Region IV-A - CALABARZON",
      "Region X - Northern Mindanao", "Region XI - Davao Region", "SUCsLUCs",
      "Senior High School">>

Range(s) == {s[i] : i \in 1..Len(s)}

\* list.index(x): the first position of x in s.
IndexOf(s, x) == CHOOSE i \in 1..Len(s) : s[i] = x /\ \A j \in 1..(i - 1) : s[j] # x

\* x < y on two strings.
StrLess(x, y) == IndexOf(CodePoints, x) < IndexOf(CodePoints, y)

\* a < b on two tuples of strings of the same length (the order of group keys).
RECURSIVE KeyLess(_, _)
KeyLess(a, b) ==
    /\ a # <<>>
    /\ \/ StrLess(Head(a), Head(b))
       \/ Head(a) = Head(b) /\ KeyLess(Tail(a), Tail(b))

RECURSIVE Reverse(_)
Reverse(s) == IF s = <<>> THEN <<>> ELSE Append(Reverse(Tail(s)), Head(s))

\* A stable ascending sort of s (Python's sorted; numpy's argsort on the
\* short arrays of this model), where less[i][j] says that s[i] < s[j]: an
\* element comes after the elements that are less than it and after the
\* equivalent ones that stood before it.
StableSort(s, less) ==
    LET Before(i) == {j \in 1..Len(s) :
                         \/ less[j][i]
                         \/ ~less[i][j] /\ j < i}
    IN [p \in 1..Len(s) |->
           s[CHOOSE i \in 1..Len(s) : Cardinality(Before(i)) = p - 1]]

\* Series.unique(): the distinct values in order of first appearance.
RECURSIVE unique(_)
unique(s) ==
    IF s = <<>> THEN <<>>
    ELSE LET u == unique(SubSeq(s, 1, Len(s) - 1))
         IN IF s[Len(s)] \in Range(u) THEN u ELSE Append(u, s[Len(s)])

-----------------------------------------------------------------------------
(* Tables *)

RawColumns == <<"School Year", "Region", "Level", "Sector",
                "Total Enrollment", "Total Infrastructure">>

\* row[col] in table t.
Cell(t, row, col) == row[IndexOf(t.columns, col)]

\* t[col] as a sequence of cells.
Column(t, col) == [i \in 1..Len(t.rows) |-> Cell(t, t.rows[i], col)]

\* s[mask]: the elements of s at the positions where mask is true.
RECURSIVE Select(_, _)
Select(s, mask) ==
    IF Len(s) = 0 THEN <<>>
    ELSE LET front == Select(SubSeq(s, 1, Len(s) - 1), mask)
         IN IF mask[Len(s)] THEN Append(front, s[Len(s)]) ELSE front

RECURSIVE FSum(_)
FSum(s) == IF s = <<>> THEN Num(0) ELSE FAdd(Head(s), FSum(Tail(s)))

\* Series.sum() / the "sum" aggregation: missing values are skipped.
sum(s) == FSum(Select(s, [i \in 1..Len(s) |-> notna(s[i])]))

\* Series.mean(): missing values are skipped; no value left gives NaN.
mean(s) ==
    LET v == Select(s, [i \in 1..Len(s) |-> notna(s[i])])
    IN IF v = <<>> THEN NaN ELSE FDiv(FSum(v), Num(Len(v)))

\* t[mask]: the rows of t at the positions where mask is true.
Where(t, mask) == [columns |-> t.columns, rows |-> Select(t.rows, mask)]

\* t[name] = values, for a column name t does not have yet.
AddColumn(t, name, values) ==
    [columns |-> Append(t.columns, name),
     rows |-> [i \in 1..Len(t.rows) |-> Append(t.rows[i], values[i])]]

\* The group keys of t.groupby(keycols): the distinct key tuples, sorted.
GroupKeys(t, keycols) ==
    LET keys == unique([i \in 1..Len(t.rows) |->
                           [k \in 1..Len(keycols) |-> Cell(t, t.rows[i], keycols[k])]])
    IN StableSort(keys, [i \in 1..Len(keys) |->
                            [j \in 1..Len(keys) |-> KeyLess(keys[i], keys[j])]])

\* The cells of column col in the rows of t whose key is key.
GroupCells(t, keycols, key, col) ==
    Column(Where(t, [i \in 1..Len(t.rows) |->
                        \A k \in 1..Len(keycols) :
                            Cell(t, t.rows[i], keycols[k]) = key[k]]),
           col)

focus_regions ==
    [r \in {"NCR - National Capital Region", "Region IV-A - CALABARZON",
            "Region III - Central Luzon", "Region XI - Davao Region",
            "Region X - Northern Mindanao"} |->
        CASE r = "NCR - National Capital Region" -> "NCR"
          [] r = "Region IV-A - CALABARZON" -> "CALABARZON"
          [] r = "Region III - Central Luzon" -> "Central Luzon"
          [] r = "Region XI - Davao Region" -> "Davao"
          [] r = "Region X - Northern Mindanao" -> "Northern Mindanao"]

-----------------------------------------------------------------------------
(* The functions of the script *)

\* A header cell of a spreadsheet: <<leading blanks, text, trailing blanks>>.
strip(c) == <<0, c[2], 0>>

\* The column name a stripped header cell stands for.
Name(c) == c[2]

\* load_data's body for a sheet that read_excel could parse.
load_data(sheet) ==
    [columns |-> [i \in 1..Len(sheet.header) |-> Name(strip(sheet.header[i]))],
     rows |-> sheet.rows]

\* compute_shs without the test on Level.
compute_shs_any_level(d) ==
    LET kept == Where(d, [i \in 1..Len(d.rows) |->
                             notna(Cell(d, d.rows[i], "Total Infrastructure"))])
    IN AddColumn(kept, "Learners per Infra",
                 [i \in 1..Len(kept.rows) |->
                     FDiv(Cell(kept, kept.rows[i], "Total Enrollment"),
                          Cell(kept, kept.rows[i], "Total Infrastructure"))])

\* The table compute_shs returns.
compute_shs(d) ==
    LET kept == Where(d, [i \in 1..Len(d.rows) |->
                             /\ Cell(d, d.rows[i], "Level") = "Senior High School"
                             /\ notna(Cell(d, d.rows[i], "Total Infrastructure"))])
    IN AddColumn(kept, "Learners per Infra",
                 [i \in 1..Len(kept.rows) |->
                     FDiv(Cell(kept, kept.rows[i], "Total Enrollment"),
                          Cell(kept, kept.rows[i], "Total Infrastructure"))])

\* compute_shs setting the new column on its argument.
compute_shs_arg_in_place(d) ==
    AddColumn(d, "Learners per Infra",
              [i \in 1..Len(d.rows) |->
                  FDiv(Cell(d, d.rows[i], "Total Enrollment"),
                       Cell(d, d.rows[i], "Total Infrastructure"))])

\* The argument of compute_shs after the call: the rows are selected into a
\* new table and copied, so the new column is set on the copy.
compute_shs_arg(d) == d

\* get_year_order without the sort.
get_year_order_unsorted(d) == unique(Column(d, "School Year"))

get_year_order(d) ==
    LET u == unique(Column(d, "School Year"))
    IN StableSort(u, [i \in 1..Len(u) |-> [j \in 1..Len(u) |-> StrLess(u[i], u[j])]])

\* Lines 89-92 with "first" in place of "sum".
NatShsFirst(s) ==
    LET keys == GroupKeys(s, <<"School Year">>)
    IN [columns |-> <<"School Year", "total_enrollment", "total_infra">>,
        rows |-> [g \in 1..Len(keys) |->
                     <<keys[g][1],
                       GroupCells(s, <<"School Year">>, keys[g], "Total Enrollment")[1],
                       GroupCells(s, <<"School Year">>, keys[g], "Total Infrastructure")[1]>>]]

\* Lines 89-92.
NatShs(s) ==
    LET keys == GroupKeys(s, <<"School Year">>)
    IN [columns |-> <<"School Year", "total_enrollment", "total_infra">>,
        rows |-> [g \in 1..Len(keys) |->
                     <<keys[g][1],
                       sum(GroupCells(s, <<"School Year">>, keys[g], "Total Enrollment")),
                       sum(GroupCells(s, <<"School Year">>, keys[g], "Total Infrastructure"))>>]]

\* Lines 131-132: the table shs_focus.
ShsFocus(s) ==
    LET kept == Where(s, [i \in 1..Len(s.rows) |->
                             Cell(s, s.rows[i], "Region") \in DOMAIN focus_regions])
    IN AddColumn(kept, "Region Short",
                 [i \in 1..Len(kept.rows) |->
                     focus_regions[Cell(kept, kept.rows[i], "Region")]])

\* shs after lines 131-132: the new column is set on the copy.
ShsFocusArg(s) == s

\* Lines 134-138.
RegionYearRatio(f) ==
    LET cols == <<"School Year", "Region Short">>
        keys == GroupKeys(f, cols)
    IN [columns |-> <<"School Year", "Region Short", "Learners per Infra">>,
        rows |-> [g \in 1..Len(keys) |->
                     <<keys[g][1], keys[g][2],
                       mean(GroupCells(f, cols, keys[g], "Learners per Infra"))>>]]

\* Lines 190-194.
ShsSector(s, compare_years) ==
    Where(s, [i \in 1..Len(s.rows) |->
                 /\ Cell(s, s.rows[i], "Region") \in DOMAIN focus_regions
                 /\ Cell(s, s.rows[i], "School Year") \in Range(compare_years)
                 /\ Cell(s, s.rows[i], "Sector") \in {"PUBLIC", "PRIVATE"}])

\* Lines 196-202.
SectorSummary(t) ==
    LET cols == <<"Region", "School Year", "Sector">>
        keys == GroupKeys(t, cols)
        grouped ==
            [columns |-> <<"Region", "School Year", "Sector", "Total Enrollment">>,
             rows |-> [g \in 1..Len(keys) |->
                          <<keys[g][1], keys[g][2], keys[g][3],
                            sum(GroupCells(t, cols, keys[g], "Total Enrollment"))>>]]
    IN AddColumn(grouped, "Region Short",
                 [g \in 1..Len(keys) |-> focus_regions[keys[g][1]]])

\* Line 235 without the test on the year.
ShsYearAll(s, year) == s

\* Line 235.
ShsYear(s, year) ==
    Where(s, [i \in 1..Len(s.rows) |-> Cell(s, s.rows[i], "School Year") = year])

\* Series.sort_values(ascending=False) on <<label, value>> entries: the values
\* that are not NaN are reversed, sorted ascending and reversed again; the
\* NaN entries follow in their order.
sort_values_descending(entries) ==
    LET present == Reverse(Select(entries, [i \in 1..Len(entries) |->
                                                notna(entries[i][2])]))
        missing == Select(entries, [i \in 1..Len(entries) |-> isna(entries[i][2])])
    IN Reverse(StableSort(present,
                          [i \in 1..Len(present) |->
                              [j \in 1..Len(present) |->
                                  FLess(present[i][2], present[j][2])]]))
           \o missing

\* Lines 237-242.
Ranking(y) ==
    LET keys == GroupKeys(y, <<"Region">>)
        means == [g \in 1..Len(keys) |->
                     <<keys[g][1],
                       mean(GroupCells(y, <<"Region">>, keys[g], "Learners per Infra"))>>]
    IN [columns |-> <<"Region", "Learners per Infra">>,
        rows |-> sort_values_descending(means)]

-----------------------------------------------------------------------------
(* The session *)

Unbound == <<>>

NoUpload == "None"
Uploads == {"a.xlsx", "b.xlsx"}
default_path == "Education Dataset (1).xlsx"

\* The arguments of a load_data call, which st.cache_data keys its entries by.
Key(u) == <<u, default_path>>
Keys == {Key(u) : u \in Uploads \cup {NoUpload}}

\* The file read_excel is given (lines 16-19).
Source(u) == IF u # NoUpload THEN u ELSE default_path

\* A file read_excel cannot parse.
Corrupt == [ok |-> FALSE, header |-> <<>>, rows |-> <<>>]

\* The header row of a well-formed sheet, with incidental blanks.
SheetHeader ==
    <<<<0, "School Year", 1>>, <<0, "Region", 0>>, <<1, "Level", 0>>,
      <<0, "Sector", 0>>, <<0, "Total Enrollment", 2>>,
      <<1, "Total Infrastructure", 1>>>>

Sheet(rows) == [ok |-> TRUE, header |-> SheetHeader, rows |-> rows]

\* The sheets of at most MaxRows rows drawn from the row set R.
Sheets(R) == {Sheet(r) : r \in UNION {[1..n -> R] : n \in 0..MaxRows}}

\* The scenario of the specification: one region, two years.
Scenario ==
    Sheet(<<
        <<"2021-2022", "NCR - National Capital Region", "Senior High School",
          "PUBLIC", Num(1000), Num(10)>>,
        <<"2022-2023", "NCR - National Capital Region", "Senior High School",
          "PUBLIC", Num(1200), Num(10)>> >>)

\* load_data without @st.cache_data.
CacheHitNever(key) == FALSE

\* st.cache_data has an entry for these arguments.
CacheHit(key) == cache[key] # Unbound

\* The except clause without st.stop().
AfterLoadErrorGoOn == "years"

\* Where the script goes after the except clause of lines 54-56: st.stop().
AfterLoadError == "stopped"

NoWidgets == [ranking |-> Unbound, year_a |-> Unbound, year_b |-> Unbound]

\* st.selectbox(options, index): the value kept for this widget if it was
\* chosen among these same options, else options[index].
selectbox(kept, options, index) ==
    IF kept # Unbound /\ kept[1].options = options
    THEN kept[1].value
    ELSE options[index]

ScriptVars == <<df, years, selected_year_for_ranking, year_a, year_b, shs,
                nat_shs, shs_focus, region_year_ratio, shs_sector,
                sector_summary, shs_year, ranking>>

\* The state in which a script run starts: no variable of the script is bound.
RunStarts(why) ==
    /\ pc' = "load"
    /\ trigger' = why
    /\ parsed' = FALSE
    /\ errors' = 0
    /\ df' = Unbound /\ years' = Unbound
    /\ selected_year_for_ranking' = Unbound /\ year_a' = Unbound /\ year_b' = Unbound
    /\ shs' = Unbound /\ nat_shs' = Unbound /\ shs_focus' = Unbound
    /\ region_year_ratio' = Unbound /\ shs_sector' = Unbound
    /\ sector_summary' = Unbound /\ shs_year' = Unbound /\ ranking' = Unbound

\* The first run of a session whose default file is one of the sheets D.
InitWith(D) ==
    /\ disk \in {[f \in Uploads \cup {default_path} |->
                     IF f = default_path THEN d
                     ELSE IF f = "a.xlsx" THEN Scenario ELSE Corrupt] : d \in D}
    /\ uploaded = NoUpload
    /\ cache = [k \in Keys |-> Unbound]
    /\ widgets = NoWidgets
    /\ pc = "load"
    /\ trigger = "start"
    /\ parsed = FALSE
    /\ errors = 0
    /\ df = Unbound /\ years = Unbound
    /\ selected_year_for_ranking = Unbound /\ year_a = Unbound /\ year_b = Unbound
    /\ shs = Unbound /\ nat_shs = Unbound /\ shs_focus = Unbound
    /\ region_year_ratio = Unbound /\ shs_sector = Unbound
    /\ sector_summary = Unbound /\ shs_year = Unbound /\ ranking = Unbound

\* Line 53, the arguments were loaded before: the cached table is returned.
LoadCached ==
    /\ pc = "load"
    /\ CacheHit(Key(uploaded))
    /\ df' = cache[Key(uploaded)]
    /\ pc' = "years"
    /\ UNCHANGED <<disk, uploaded, cache, trigger, parsed, errors, widgets, years,
                   selected_year_for_ranking, year_a, year_b, shs, nat_shs,
                   shs_focus, region_year_ratio, shs_sector, sector_summary,
                   shs_year, ranking>>

\* Line 53, no entry: load_data runs, parses the file and its result is cached.
LoadParsed ==
    /\ pc = "load"
    /\ ~CacheHit(Key(uploaded))
    /\ disk[Source(uploaded)].ok
    /\ parsed' = TRUE
    /\ df' = <<load_data(disk[Source(uploaded)])>>
    /\ cache' = [cache EXCEPT ![Key(uploaded)] = df']
    /\ pc' = "years"
    /\ UNCHANGED <<disk, uploaded, trigger, errors, widgets, years,
                   selected_year_for_ranking, year_a, year_b, shs, nat_shs,
                   shs_focus, region_year_ratio, shs_sector, sector_summary,
                   shs_year, ranking>>

\* Lines 53-56, no entry and read_excel raises: nothing is cached, the error
\* is shown and the run stops; the widgets it did not reach are forgotten.
LoadFailed ==
    /\ pc = "load"
    /\ ~CacheHit(Key(uploaded))
    /\ ~disk[Source(uploaded)].ok
    /\ parsed' = TRUE
    /\ errors' = errors + 1
    /\ pc' = AfterLoadError
    /\ widgets' = NoWidgets
    /\ UNCHANGED <<disk, uploaded, cache, trigger, df, years,
                   selected_year_for_ranking, year_a, year_b, shs, nat_shs,
                   shs_focus, region_year_ratio, shs_sector, sector_summary,
                   shs_year, ranking>>

\* Lines 58-60 on a table with rows.
GetYears ==
    /\ pc = "years"
    /\ df # Unbound
    /\ Len(df[1].rows) > 0
    /\ years' = <<get_year_order(df[1])>>
    /\ pc' = "select_ranking"
    /\ UNCHANGED <<disk, uploaded, cache, trigger, parsed, errors, widgets, df,
                   selected_year_for_ranking, year_a, year_b, shs, nat_shs,
                   shs_focus, region_year_ratio, shs_sector, sector_summary,
                   shs_year, ranking>>

\* Lines 58-59 on a table without rows: years is empty, years[0] raises
\* IndexError and the run ends there.
GetYearsEmpty ==
    /\ pc = "years"
    /\ df # Unbound
    /\ Len(df[1].rows) = 0
    /\ years' = <<get_year_order(df[1])>>
    /\ pc' = "crashed"
    /\ widgets' = NoWidgets
    /\ UNCHANGED <<disk, uploaded, cache, trigger, parsed, errors, df,
                   selected_year_for_ranking, year_a, year_b, shs, nat_shs,
                   shs_focus, region_year_ratio, shs_sector, sector_summary,
                   shs_year, ranking>>

\* Lines 63-67; index is that of max_year, the last year.
SelectRanking ==
    /\ pc = "select_ranking"
    /\ LET value == selectbox(widgets.ranking, years[1],
                              IndexOf(years[1], years[1][Len(years[1])]))
       IN /\ selected_year_for_ranking' = <<value>>
          /\ widgets' = [widgets EXCEPT
                            !.ranking = <<[options |-> years[1], value |-> value]>>]
    /\ pc' = "compute_shs"
    /\ UNCHANGED <<disk, uploaded, cache, trigger, parsed, errors, df, years,
                   year_a, year_b, shs, nat_shs, shs_focus, region_year_ratio,
                   shs_sector, sector_summary, shs_year, ranking>>

\* Line 74.
ComputeShs ==
    /\ pc = "compute_shs"
    /\ shs' = <<compute_shs(df[1])>>
    /\ df' = <<compute_shs_arg(df[1])>>
    /\ pc' = "nat_shs"
    /\ UNCHANGED <<disk, uploaded, cache, trigger, parsed, errors, widgets, years,
                   selected_year_for_ranking, year_a, year_b, nat_shs, shs_focus,
                   region_year_ratio, shs_sector, sector_summary, shs_year,
                   ranking>>

\* Lines 89-92.
NationalTrend ==
    /\ pc = "nat_shs"
    /\ nat_shs' = <<NatShs(shs[1])>>
    /\ pc' = "shs_focus"
    /\ UNCHANGED <<disk, uploaded, cache, trigger, parsed, errors, widgets, df,
                   years, selected_year_for_ranking, year_a, year_b, shs,
                   shs_focus, region_year_ratio, shs_sector, sector_summary,
                   shs_year, ranking>>

\* Lines 131-138.
RegionTrend ==
    /\ pc = "shs_focus"
    /\ shs_focus' = <<ShsFocus(shs[1])>>
    /\ shs' = <<ShsFocusArg(shs[1])>>
    /\ region_year_ratio' = <<RegionYearRatio(ShsFocus(shs[1]))>>
    /\ pc' = "select_compare"
    /\ UNCHANGED <<disk, uploaded, cache, trigger, parsed, errors, widgets, df,
                   years, selected_year_for_ranking, year_a, year_b, nat_shs,
                   shs_sector, sector_summary, shs_year, ranking>>

\* Lines 172-186.
SelectCompare ==
    /\ pc = "select_compare"
    /\ LET a == selectbox(widgets.year_a, years[1], 1)
           b == selectbox(widgets.year_b, years[1], Len(years[1]))
       IN /\ year_a' = <<a>>
          /\ year_b' = <<b>>
          /\ widgets' = [widgets EXCEPT
                            !.year_a = <<[options |-> years[1], value |-> a]>>,
                            !.year_b = <<[options |-> years[1], value |-> b]>>]
    /\ pc' = "shs_sector"
    /\ UNCHANGED <<disk, uploaded, cache, trigger, parsed, errors, df, years,
                   selected_year_for_ranking, shs, nat_shs, shs_focus,
                   region_year_ratio, shs_sector, sector_summary, shs_year,
                   ranking>>

\* Lines 188-202.
SectorComparison ==
    /\ pc = "shs_sector"
    /\ shs_sector' = <<ShsSector(shs[1], <<year_a[1], year_b[1]>>)>>
    /\ sector_summary' =
           <<SectorSummary(ShsSector(shs[1], <<year_a[1], year_b[1]>>))>>
    /\ pc' = "ranking"
    /\ UNCHANGED <<disk, uploaded, cache, trigger, parsed, errors, widgets, df,
                   years, selected_year_for_ranking, year_a, year_b, shs,
                   nat_shs, shs_focus, region_year_ratio, shs_year, ranking>>

\* Lines 235-242; the script ends after the charts are drawn.
RankRegions ==
    /\ pc = "ranking"
    /\ shs_year' = <<ShsYear(shs[1], selected_year_for_ranking[1])>>
    /\ ranking' = <<Ranking(ShsYear(shs[1], selected_year_for_ranking[1]))>>
    /\ pc' = "done"
    /\ UNCHANGED <<disk, uploaded, cache, trigger, parsed, errors, widgets, df,
                   years, selected_year_for_ranking, year_a, year_b, shs,
                   nat_shs, shs_focus, region_year_ratio, shs_sector,
                   sector_summary>>

\* The run is over and the page waits for the user.
Idle == pc \in {"done", "stopped", "crashed"}

\* The user uploads a file (line 45), which starts a run.
Upload ==
    /\ Idle
    /\ \E f \in Uploads :
          /\ f # uploaded
          /\ uploaded' = f
    /\ RunStarts("upload")
    /\ UNCHANGED <<disk, cache, widgets>>

\* The user removes the uploaded file: the default path is used again.
RemoveUpload ==
    /\ Idle
    /\ uploaded # NoUpload
    /\ uploaded' = NoUpload
    /\ RunStarts("upload")
    /\ UNCHANGED <<disk, cache, widgets>>

\* The user picks another year in the selectbox w, which starts a run.
PickYear(w) ==
    /\ pc = "done"
    /\ \E y \in Range(years[1]) :
          /\ y # widgets[w][1].value
          /\ widgets' = [widgets EXCEPT
                            ![w] = <<[options |-> years[1], value |-> y]>>]
    /\ RunStarts("year")
    /\ UNCHANGED <<disk, uploaded, cache>>

PickRankingYear == PickYear("ranking")
PickYearA == PickYear("year_a")
PickYearB == PickYear("year_b")

Next ==
    \/ LoadCached \/ LoadParsed \/ LoadFailed
    \/ GetYears \/ GetYearsEmpty
    \/ SelectRanking \/ ComputeShs \/ NationalTrend \/ RegionTrend
    \/ SelectCompare \/ SectorComparison \/ RankRegions
    \/ Upload \/ RemoveUpload
    \/ PickRankingYear \/ PickYearA \/ PickYearB

-----------------------------------------------------------------------------
(* Spreadsheets of the checks *)

Floats(S) == {IF n < 0 THEN NaN ELSE Num(n) : n \in S}

\* Rows that differ in year and level: what the control flow depends on.
FlowRows ==
    {"2021-2022", "2022-2023"} \X {"NCR - National Capital Region"}
        \X {"Senior High School", "Junior High School"} \X {"PUBLIC"}
        \X Floats({3}) \X Floats({-1, 0, 2})

Spec == InitWith({Corrupt} \cup Sheets(FlowRows)) /\ [][Next]_vars

\* Rows of one year, with and without infrastructure units, zero included.
CongestionRows ==
    {"2022-2023"}
        \X {"NCR - National Capital Region", "Region I - Ilocos Region"}
        \X {"Senior High School", "Junior High School"} \X {"PUBLIC"}
        \X Floats({0, 3}) \X Floats({-1, 0, 2})

SpecCongestion == InitWith({Corrupt} \cup Sheets(CongestionRows)) /\ [][Next]_vars

\* Senior High School rows of two years with different counts.
TotalsRows ==
    {"2021-2022", "2022-2023"} \X {"NCR - National Capital Region"}
        \X {"Senior High School"} \X {"PUBLIC"}
        \X Floats({1, 3}) \X Floats({-1, 2, 5})

SpecTotals == InitWith({Corrupt} \cup Sheets(TotalsRows)) /\ [][Next]_vars

-----------------------------------------------------------------------------
(* Properties *)

\* The cells of an output row under the columns of the input table.
Original(row) == SubSeq(row, 1, Len(RawColumns))

IsShsRow(t, row) ==
    /\ Cell(t, row, "Level") = "Senior High School"
    /\ Cell(t, row, "Total Infrastructure") # NaN

Count(rows, r) == Cardinality({i \in 1..Len(rows) : rows[i] = r})

\* C1: the rows of compute_shs's output are the rows of its input whose Level
\* is "Senior High School" and whose Total Infrastructure is present, each as
\* often as in the input and no others; the output is no longer than the
\* input and holds no "Junior High School" row.
C1_OutputIsTheShsRows ==
    shs # Unbound =>
        LET in == df[1].rows
            out == [i \in 1..Len(shs[1].rows) |-> Original(shs[1].rows[i])]
        IN /\ \A i \in 1..Len(out) :
                  \E j \in 1..Len(in) : in[j] = out[i] /\ IsShsRow(df[1], in[j])
           /\ \A j \in 1..Len(in) :
                  IsShsRow(df[1], in[j]) => Count(out, in[j]) = Count(in, in[j])
           /\ Len(out) <= Len(in)
           /\ \A i \in 1..Len(out) : out[i][3] # "Junior High School"

\* A Junior High School row stood beside a row that was kept.
C1_Witness ==
    /\ shs # Unbound
    /\ Len(shs[1].rows) > 0
    /\ \E j \in 1..Len(df[1].rows) : df[1].rows[j][3] = "Junior High School"

\* C2: every row of compute_shs's output has Level "Senior High School" and a
\* Total Infrastructure that is present and not zero.
C2_InfrastructureNonZero ==
    shs # Unbound =>
        \A i \in 1..Len(shs[1].rows) :
            LET row == shs[1].rows[i]
            IN /\ Cell(shs[1], row, "Level") = "Senior High School"
               /\ Cell(shs[1], row, "Total Infrastructure") # NaN
               /\ Cell(shs[1], row, "Total Infrastructure") # Num(0)

\* q is the quotient of the integer cells a and b: b is not zero and q is a
\* number with q * b = a.
IsQuotient(q, a, b) ==
    /\ b[1] # 0
    /\ q[2] # 0
    /\ q[1] * b[1] = a[1] * q[2]

\* C3: in every row of compute_shs's output Learners per Infra is Total
\* Enrollment divided by Total Infrastructure; the rows 1000/10 and 1200/10
\* give 100 and 120.
C3_LearnersPerInfraIsQuotient ==
    shs # Unbound =>
        /\ \A i \in 1..Len(shs[1].rows) :
               LET row == shs[1].rows[i]
               IN IsQuotient(Cell(shs[1], row, "Learners per Infra"),
                             Cell(shs[1], row, "Total Enrollment"),
                             Cell(shs[1], row, "Total Infrastructure"))
        /\ df[1].rows = Scenario.rows =>
               Column(shs[1], "Learners per Infra") = <<Num(100), Num(120)>>

\* What C3 says of the rows whose Total Infrastructure is not zero holds.
C3_QuotientWhereInfrastructureNonZero ==
    shs # Unbound =>
        \A i \in 1..Len(shs[1].rows) :
            LET row == shs[1].rows[i]
            IN Cell(shs[1], row, "Total Infrastructure") # Num(0) =>
                   IsQuotient(Cell(shs[1], row, "Learners per Infra"),
                              Cell(shs[1], row, "Total Enrollment"),
                              Cell(shs[1], row, "Total Infrastructure"))

\* C4: once bound in a run, the raw table and the congestion table stay as
\* they are through every later step of the run: compute_shs does not change
\* its argument (no column is added to it) and no aggregation step changes
\* df or shs.
C4_TablesNotMutated ==
    [][pc' # "load" =>
          /\ df # Unbound => df' = df
          /\ shs # Unbound => shs' = shs]_vars

\* A run went through every step on a table with congestion rows.
C4_Witness ==
    /\ pc = "done"
    /\ Len(shs[1].rows) > 0
    /\ Len(shs_focus[1].rows) > 0
    /\ df[1].columns = RawColumns

\* The sum of the integer cells c of the first n rows with School Year y.
RECURSIVE YearTotal(_, _, _, _)
YearTotal(rows, c, y, n) ==
    IF n = 0 THEN 0
    ELSE YearTotal(rows, c, y, n - 1) + (IF rows[n][1] = y THEN rows[n][c][1] ELSE 0)

\* The sum of the integer cells c of the first n rows.
RECURSIVE Total(_, _, _)
Total(rows, c, n) == IF n = 0 THEN 0 ELSE Total(rows, c, n - 1) + rows[n][c][1]

\* C5: nat_shs has one row for each School Year of the congestion table, its
\* total_enrollment and total_infra are the sums over the rows of that year,
\* and the total_enrollment cells add up to the Total Enrollment of all
\* congestion rows.
C5_NationalTotals ==
    nat_shs # Unbound =>
        LET rows == shs[1].rows
            out == nat_shs[1].rows
        IN /\ \A g, h \in 1..Len(out) : out[g][1] = out[h][1] => g = h
           /\ {out[g][1] : g \in 1..Len(out)} = {rows[i][1] : i \in 1..Len(rows)}
           /\ \A g \in 1..Len(out) :
                  /\ out[g][2] = Num(YearTotal(rows, 5, out[g][1], Len(rows)))
                  /\ out[g][3] = Num(YearTotal(rows, 6, out[g][1], Len(rows)))
           /\ Total(out, 2, Len(out)) = Total(rows, 5, Len(rows))

\* Two congestion rows of one year were added up.
C5_Witness ==
    /\ nat_shs # Unbound
    /\ Len(shs[1].rows) = 2
    /\ Len(nat_shs[1].rows) = 1
    /\ nat_shs[1].rows[1][2] = Num(4)

\* The sum n/d of the first k numbers of s, not reduced.
RECURSIVE RatSum(_, _)
RatSum(s, k) ==
    IF k = 0 THEN <<0, 1>>
    ELSE LET r == RatSum(s, k - 1)
         IN <<r[1] * s[k][2] + s[k][1] * r[2], r[2] * s[k][2]>>

\* m is the mean of the numbers s.
IsMean(m, s) ==
    /\ \A k \in 1..Len(s) : s[k][2] # 0
    /\ m[2] # 0
    /\ m[1] * RatSum(s, Len(s))[2] * Len(s) = RatSum(s, Len(s))[1] * m[2]

\* a >= b on floats.
FGreaterEq(a, b) == a # NaN /\ b # NaN /\ ~FLess(a, b)

\* The ranking has one entry for each Region of the congestion rows of the
\* selected year, with the mean of its Learners per Infra, in descending order.
RankingIsSortedMeans ==
    LET year == selected_year_for_ranking[1]
        rows == SelectSeq(shs[1].rows, LAMBDA row : row[1] = year)
        out == ranking[1].rows
    IN /\ \A g, h \in 1..Len(out) : out[g][1] = out[h][1] => g = h
       /\ {out[g][1] : g \in 1..Len(out)} = {rows[i][2] : i \in 1..Len(rows)}
       /\ \A g \in 1..Len(out) :
              LET cells == SelectSeq(rows, LAMBDA row : row[2] = out[g][1])
              IN IsMean(out[g][2], [k \in 1..Len(cells) |-> cells[k][7]])
       /\ \A g \in 1..(Len(out) - 1) : FGreaterEq(out[g][2], out[g + 1][2])

\* C6: for every congestion table and year the ranking has one entry per
\* Region with a congestion row in that year, carrying the mean of the
\* region's Learners per Infra, each entry's mean >= the next one's.
C6_RankingSortedMeans == ranking # Unbound => RankingIsSortedMeans

\* What C6 says holds of the tables without a zero Total Infrastructure.
C6_RankingWhereInfrastructureNonZero ==
    /\ ranking # Unbound
    /\ \A i \in 1..Len(shs[1].rows) : shs[1].rows[i][6] # Num(0)
    => RankingIsSortedMeans

\* C7: when no congestion row has the selected year, the ranking is an empty
\* sequence and the run ends normally.
C7_NoRowsEmptyRanking ==
    /\ ranking # Unbound
    /\ \A i \in 1..Len(shs[1].rows) :
           shs[1].rows[i][1] # selected_year_for_ranking[1]
    => ranking[1].rows = <<>> /\ pc = "done"

\* The selected year is a year of the raw table, every row of which is left
\* out of the congestion table, which has rows of another year.
C7_Witness ==
    /\ ranking # Unbound
    /\ ranking[1].rows = <<>>
    /\ Len(shs[1].rows) > 0
    /\ \E i \in 1..Len(df[1].rows) :
           df[1].rows[i][1] = selected_year_for_ranking[1]

\* C8: years holds each School Year of the raw table once and nothing else,
\* in ascending order, and a second call gives the same sequence.
C8_YearsSortedDistinct ==
    years # Unbound =>
        /\ Range(years[1]) = {df[1].rows[i][1] : i \in 1..Len(df[1].rows)}
        /\ \A i \in 1..(Len(years[1]) - 1) :
               IndexOf(CodePoints, years[1][i]) < IndexOf(CodePoints, years[1][i + 1])
        /\ get_year_order(df[1]) = years[1]

\* The later year stands first in the raw table.
C8_Witness ==
    /\ years # Unbound
    /\ Len(years[1]) = 2
    /\ df[1].rows[1][1] = "2022-2023"

\* The load of this run raised.
LoadRaised == parsed /\ ~disk[Source(uploaded)].ok

\* C9: a failed load is shown once, as the one error of the run, and the run
\* stops: no variable of the script is bound and nothing is cached for the
\* failed arguments; no error is shown in a run whose load did not fail.
C9_LoadFailureStopsRun ==
    /\ LoadRaised =>
           /\ errors = 1
           /\ pc = "stopped"
           /\ \A i \in 1..Len(ScriptVars) : ScriptVars[i] = Unbound
           /\ cache[Key(uploaded)] = Unbound
    /\ errors > 0 => LoadRaised

\* The run of an uploaded file that cannot be parsed has stopped.
C9_Witness ==
    /\ pc = "stopped"
    /\ errors = 1
    /\ uploaded = "b.xlsx"

\* C10: read_excel runs only for arguments that no earlier load succeeded
\* with; a run started by a year selection does not parse, and it computes
\* its tables from the cached raw table.
C10_ParseOnlyNewArguments ==
    /\ [][parsed' /\ ~parsed => cache[Key(uploaded)] = Unbound]_vars
    /\ [](trigger = "year" =>
              /\ ~parsed
              /\ df # Unbound => df = cache[Key(uploaded)]
              /\ pc = "done" => shs # Unbound /\ ranking # Unbound)

\* A run started by a year selection ended without parsing.
C10_Witness ==
    /\ trigger = "year"
    /\ pc = "done"
    /\ ~parsed
    /\ shs # Unbound

=============================================================================
